---- MODULE Spec2Model ----
(***************************************************************************)
(* Model of the recompiler runtime support layer of n64-recomp-rs:         *)
(* the execution context (src/types.rs) and the memory / argument /        *)
(* return-value helpers (src/utils.rs).                                    *)
(*                                                                         *)
(* 64-bit quantities are sequences of four 16-bit limbs, least significant *)
(* limb first, so that wrapping arithmetic is computed at its real width.  *)
(* 32-bit quantities are sequences of two limbs.  The host is taken to be  *)
(* a 64-bit little-endian machine (usize = u64; the low lane of a floating *)
(* cell is its first four bytes).                                          *)
(***************************************************************************)
EXTENDS Integers, Sequences, FiniteSets

VARIABLES gpr, fpr, special, rdram, pc, str, ret, nmut

vars == <<gpr, fpr, special, rdram, pc, str, ret, nmut>>

(***************************************************************************)
(* Bounds of the model.                                                    *)
(***************************************************************************)
MemWords == 2
MaxLen == 2
MaxWrites == 1
MaxJunk == 1

(***************************************************************************)
(* Fixed-width arithmetic.                                                 *)
(***************************************************************************)
LimbMod == 2^16

Zero64 == <<0, 0, 0, 0>>

FromNat(n) == <<n % LimbMod, n \div LimbMod, 0, 0>>

\* Operands are bound by a quantifier over a singleton so that each is
\* evaluated once.
AddLimbs(x, y) ==
    LET s1 == x[1] + y[1]
        s2 == x[2] + y[2] + (s1 \div LimbMod)
        s3 == x[3] + y[3] + (s2 \div LimbMod)
        s4 == x[4] + y[4] + (s3 \div LimbMod)
    IN  <<s1 % LimbMod, s2 % LimbMod, s3 % LimbMod, s4 % LimbMod>>

SubLimbs(x, y) ==
    LET d1 == x[1] - y[1]
        d2 == x[2] - y[2] - (IF d1 < 0 THEN 1 ELSE 0)
        d3 == x[3] - y[3] - (IF d2 < 0 THEN 1 ELSE 0)
        d4 == x[4] - y[4] - (IF d3 < 0 THEN 1 ELSE 0)
    IN  <<(d1 + LimbMod) % LimbMod, (d2 + LimbMod) % LimbMod,
          (d3 + LimbMod) % LimbMod, (d4 + LimbMod) % LimbMod>>

\* u64::wrapping_add
wrapping_add(a, b) == CHOOSE s \in {AddLimbs(x, y) : x \in {a}, y \in {b}} : TRUE

\* u64::wrapping_sub
wrapping_sub(a, b) == CHOOSE d \in {SubLimbs(x, y) : x \in {a}, y \in {b}} : TRUE

\* x ^ 3 on a 64-bit value: the two low bits are complemented
xor_3(a) == [a EXCEPT ![1] = @ - (@ % 4) + (3 - (@ % 4))]

\* the literal 0xFFFFFFFF80000000 of mem_b and to_ptr
RdramBase == <<\h0000, \h8000, \hFFFF, \hFFFF>>

\* `x as u32`: the low 32 bits
as_u32(w) == <<w[1], w[2]>>

\* `b as i8` of a stored byte, and `b as u8` of an i8
as_i8(b) == IF b >= 128 THEN b - 256 ELSE b

as_u8(b) == (b + 256) % 256

(***************************************************************************)
(* The guest memory region: MemSize bytes at host offsets 0..MemSize-1.    *)
(***************************************************************************)
MemSize == 4 * MemWords

InRegion(off) == \E o \in {off} : o[2] = 0 /\ o[3] = 0 /\ o[4] = 0 /\ o[1] < MemSize

\* host offset read by mem_b(rdram, addr, offset)
mem_b_offset_noswap(addr, offset) == wrapping_sub(wrapping_add(addr, offset), RdramBase)

mem_b_offset(addr, offset) ==
    LET byte_addr == wrapping_add(addr, offset)
    IN  wrapping_sub(xor_3(byte_addr), RdramBase)

\* value of mem_b for a read inside the region
mem_b(mem, addr, offset) == as_i8(mem[mem_b_offset(addr, offset)[1]])

\* host offset computed by to_ptr(rdram, addr)
to_ptr_low32(addr) == wrapping_sub(addr, <<\h0000, \h8000, 0, 0>>)

to_ptr(addr) == wrapping_sub(addr, RdramBase)

(***************************************************************************)
(* Register aliases (types.rs).  c is the bank of integer slots r0..r31.   *)
(***************************************************************************)
zero(c) == c[0]
at(c) == c[1]
v0(c) == c[2]
v1(c) == c[3]
a0(c) == c[4]
a1(c) == c[5]
a2(c) == c[6]
a3(c) == c[7]
t0(c) == c[8]
t1(c) == c[9]
t2(c) == c[10]
t3(c) == c[11]
t4(c) == c[12]
t5(c) == c[13]
t6(c) == c[14]
t7(c) == c[15]
s0(c) == c[16]
s1(c) == c[17]
s2(c) == c[18]
s3(c) == c[19]
s4(c) == c[20]
s5(c) == c[21]
s6(c) == c[22]
s7(c) == c[23]
t8(c) == c[24]
t9_swapped(c) == c[24]
t9(c) == c[25]
k0(c) == c[26]
k1(c) == c[27]
gp(c) == c[28]
sp(c) == c[29]
fp(c) == c[30]
ra(c) == c[31]

AliasNames ==
    {"zero", "at", "v0", "v1", "a0", "a1", "a2", "a3",
     "t0", "t1", "t2", "t3", "t4", "t5", "t6", "t7",
     "s0", "s1", "s2", "s3", "s4", "s5", "s6", "s7",
     "t8", "t9", "k0", "k1", "gp", "sp", "fp", "ra"}

\* the accessor method called by name
Accessor(name, c) ==
    CASE name = "zero" -> zero(c) [] name = "at" -> at(c)
      [] name = "v0" -> v0(c) [] name = "v1" -> v1(c)
      [] name = "a0" -> a0(c) [] name = "a1" -> a1(c)
      [] name = "a2" -> a2(c) [] name = "a3" -> a3(c)
      [] name = "t0" -> t0(c) [] name = "t1" -> t1(c)
      [] name = "t2" -> t2(c) [] name = "t3" -> t3(c)
      [] name = "t4" -> t4(c) [] name = "t5" -> t5(c)
      [] name = "t6" -> t6(c) [] name = "t7" -> t7(c)
      [] name = "s0" -> s0(c) [] name = "s1" -> s1(c)
      [] name = "s2" -> s2(c) [] name = "s3" -> s3(c)
      [] name = "s4" -> s4(c) [] name = "s5" -> s5(c)
      [] name = "s6" -> s6(c) [] name = "s7" -> s7(c)
      [] name = "t8" -> t8(c) [] name = "t9" -> t9(c)
      [] name = "k0" -> k0(c) [] name = "k1" -> k1(c)
      [] name = "gp" -> gp(c) [] name = "sp" -> sp(c)
      [] name = "fp" -> fp(c) [] name = "ra" -> ra(c)

(***************************************************************************)
(* Argument marshalling (utils.rs).                                        *)
(***************************************************************************)
\* assert!(index < 4, ...)
arg_index_ok(index) == index < 4

\* assert!(index == 0, ...)
f32_index_ok_any(index) == index < 4

f32_index_ok(index) == index = 0

get_arg_u32_high(c, index) ==
    LET reg == CASE index = 0 -> a0(c) [] index = 1 -> a1(c)
                 [] index = 2 -> a2(c) [] index = 3 -> a3(c)
    IN  <<reg[3], reg[4]>>

get_arg_u32(c, index) ==
    LET reg == CASE index = 0 -> a0(c) [] index = 1 -> a1(c)
                 [] index = 2 -> a2(c) [] index = 3 -> a3(c)
    IN  as_u32(reg)

get_arg_u64(c, index) ==
    CASE index = 0 -> a0(c) [] index = 1 -> a1(c)
      [] index = 2 -> a2(c) [] index = 3 -> a3(c)

\* self.f12.f.fl: the low lane of floating cell 12
get_arg_f32_high(f) == <<f[12][3], f[12][4]>>

get_arg_f32(f) == <<f[12][1], f[12][2]>>

get_arg_ptr(c, index) == to_ptr(get_arg_u64(c, index))

\* `byte == 0` ends the first pass of get_arg_string
is_terminator_signed(byte) == byte <= 0

is_terminator(byte) == byte = 0

\* `byte as u8 as char`: the code point pushed on the result
byte_as_char_signed(byte) == byte

byte_as_char(byte) == as_u8(byte)

(***************************************************************************)
(* Return values (utils.rs).  A value is the sequence of the bytes of its  *)
(* in-memory representation, least significant first.                      *)
(***************************************************************************)
IntKinds == {"i32", "u32", "i16", "u16", "i8", "u8", "bool"}

Kinds == {"f32"} \cup IntKinds \cup {"i64", "u64", "f64"}

size_of(kind) ==
    CASE kind \in {"i8", "u8", "bool"} -> 1
      [] kind \in {"i16", "u16"} -> 2
      [] kind \in {"i32", "u32", "f32"} -> 4
      [] kind \in {"i64", "u64", "f64"} -> 8

\* the 32 bits of four bytes, as two limbs
bytes_as_u32(b) == <<b[1] + 256 * b[2], b[3] + 256 * b[4]>>

\* `int_val as u64` of an i32: sign extension to 64 bits
i32_as_u64(b) ==
    LET ext == IF b[4] >= 128 THEN \hFFFF ELSE 0
    IN  <<b[1] + 256 * b[2], b[3] + 256 * b[4], ext, ext>>

\* self.f0.f.fl = float_val: only the low lane of the cell is stored
set_fl_whole(cell, bits) == <<bits[1], bits[2], 0, 0>>

set_fl(cell, bits) == <<bits[1], bits[2], cell[3], cell[4]>>

\* the dispatch on type_name
is_float_kind(kind) == kind = "f32"

is_int_kind(kind) ==
    kind = "i32" \/ kind = "u32" \/ kind = "i16" \/ kind = "u16"
        \/ kind = "i8" \/ kind = "u8" \/ kind = "bool"

(***************************************************************************)
(* Input values.                                                           *)
(***************************************************************************)
AllOnes == <<\hFFFF, \hFFFF, \hFFFF, \hFFFF>>

\* same low 32 bits as RdramBase + 1, different high 32 bits
LowAlias == <<\h0001, \h8000, \h0001, \h0000>>

GuestAddr(p) == wrapping_add(RdramBase, FromNat(p))

GprVals == {AllOnes, LowAlias, GuestAddr(1)}

RegVals == {AllOnes, LowAlias}

F32Vals == {<<\h0000, \h4060>>}

F64Vals == {<<\h1111, \h2222, \h3333, \h4444>>}

FprViews == {"d", "u64", "fl", "fh", "u32l", "u32h"}

ArgIndices == 0 .. 4

ByteVals == {75, 233}

GarbageVals == {0, 170}

ReturnVals(kind) ==
    CASE kind = "bool" -> {<<0>>, <<1>>}
      [] kind = "i8" -> {<<255>>}
      [] kind = "u8" -> {<<255>>}
      [] kind = "i16" -> {<<52, 18>>}
      [] kind = "u16" -> {<<255, 255>>}
      [] kind = "i32" -> {<<120, 86, 52, 18>>}
      [] kind = "u32" -> {<<255, 255, 255, 255>>}
      [] kind = "f32" -> {<<0, 0, 96, 64>>, <<0, 0, 0, 128>>}
      [] kind = "i64" -> {<<1, 0, 0, 0, 0, 0, 0, 0>>}
      [] kind = "u64" -> {<<1, 0, 0, 0, 0, 0, 0, 0>>}
      [] kind = "f64" -> {<<0, 0, 0, 0, 0, 0, 12, 64>>}

\* bytes the stack may hold after a value narrower than the four read
Padding(n) ==
    CASE n = 2 -> {<<0, 0>>, <<255, 255>>}
      [] n = 3 -> {<<0, 0, 0>>, <<255, 255, 255>>}

(***************************************************************************)
(* State.                                                                  *)
(***************************************************************************)
NoStr == [addr |-> Zero64, len |-> 0, i |-> 0, result |-> <<>>,
          reads1 |-> <<>>, reads2 |-> <<>>, last |-> 1, junk |-> 0]

Ret(op, name, idx, arg, val) ==
    [op |-> op, name |-> name, idx |-> idx, arg |-> arg, val |-> val]

NoRet == Ret("none", "", 0, <<>>, <<>>)

\* guest byte g of a 4-byte group lives at host position g XOR 3
SwapIndex(h) == h - (h % 4) + (3 - (h % 4))

\* the region holding the bytes S and a zero byte, in guest order from guest
\* offset p, every other byte being fill
StoredString(S, p, fill) ==
    [h \in 0 .. MemSize - 1 |->
        LET g == SwapIndex(h)
        IN  IF g >= p /\ g < p + Len(S) THEN S[g - p + 1]
            ELSE IF g = p + Len(S) THEN 0 ELSE fill]

Strings == UNION {[1 .. n -> ByteVals] : n \in 0 .. MaxLen}

InitGpr == [k \in 0 .. 31 |-> <<k, 0, k, 0>>]

InitFpr == [n \in 0 .. 31 |-> <<n, 0, n + 32, 0>>]

\* the context before any call, and a region holding "OK"
Init ==
    /\ gpr = InitGpr
    /\ fpr = InitFpr
    /\ special = [hi |-> Zero64, lo |-> Zero64, f_odd |-> 0,
                  status_reg |-> <<0, 0>>, mips3_float_mode |-> 0]
    /\ rdram = StoredString(<<79, 75>>, 1, 17)
    /\ pc = "idle"
    /\ str = NoStr
    /\ ret = NoRet
    /\ nmut = 0

(***************************************************************************)
(* Mutation of the context by generated code: direct field access.         *)
(***************************************************************************)
WriteGpr(k, v) ==
    /\ pc = "idle"
    /\ nmut < MaxWrites
    /\ gpr' = [gpr EXCEPT ![k] = v]
    /\ nmut' = nmut + 1
    /\ ret' = Ret("write_gpr", "", k, <<>>, v)
    /\ UNCHANGED <<fpr, special, rdram, pc, str>>

\* the four views of a floating cell share its eight bytes
WriteFpr(n, view, v) ==
    /\ pc = "idle"
    /\ nmut < MaxWrites
    /\ \/ /\ view \in {"d", "u64"}
          /\ v \in F64Vals
          /\ fpr' = [fpr EXCEPT ![n] = v]
       \/ /\ view \in {"fl", "u32l"}
          /\ v \in F32Vals
          /\ fpr' = [fpr EXCEPT ![n] = <<v[1], v[2], @[3], @[4]>>]
       \/ /\ view \in {"fh", "u32h"}
          /\ v \in F32Vals
          /\ fpr' = [fpr EXCEPT ![n] = <<@[1], @[2], v[1], v[2]>>]
    /\ nmut' = nmut + 1
    /\ ret' = Ret("write_fpr", view, n, <<>>, v)
    /\ UNCHANGED <<gpr, special, rdram, pc, str>>

WriteSpecial(field) ==
    /\ pc = "idle"
    /\ nmut < MaxWrites
    /\ \/ field = "hi" /\ special' = [special EXCEPT !.hi = AllOnes]
       \/ field = "lo" /\ special' = [special EXCEPT !.lo = AllOnes]
       \/ field = "status_reg" /\ special' = [special EXCEPT !.status_reg = <<1, 0>>]
       \/ field = "mips3_float_mode" /\ special' = [special EXCEPT !.mips3_float_mode = 1]
    /\ nmut' = nmut + 1
    /\ ret' = Ret("write_special", field, 0, <<>>, <<>>)
    /\ UNCHANGED <<gpr, fpr, rdram, pc, str>>

\* a call of one of the named accessors
ReadAlias(name) ==
    /\ pc = "idle"
    /\ ret' = Ret("alias", name, 0, <<>>, Accessor(name, gpr))
    /\ UNCHANGED <<gpr, fpr, special, rdram, pc, str, nmut>>

(***************************************************************************)
(* The operations of utils.rs.  A failed assert! or a panic! ends the      *)
(* process: pc becomes "panicked" and nothing is returned.                 *)
(***************************************************************************)
Panic(op, idx) ==
    /\ pc' = "panicked"
    /\ ret' = Ret(op, "", idx, <<>>, <<>>)
    /\ UNCHANGED <<gpr, fpr, special, rdram, str, nmut>>

GetArgU32(index) ==
    /\ pc = "idle"
    /\ IF arg_index_ok(index)
       THEN /\ ret' = Ret("get_arg_u32", "", index, <<>>, get_arg_u32(gpr, index))
            /\ UNCHANGED <<gpr, fpr, special, rdram, pc, str, nmut>>
       ELSE Panic("get_arg_u32", index)

GetArgU64(index) ==
    /\ pc = "idle"
    /\ IF arg_index_ok(index)
       THEN /\ ret' = Ret("get_arg_u64", "", index, <<>>, get_arg_u64(gpr, index))
            /\ UNCHANGED <<gpr, fpr, special, rdram, pc, str, nmut>>
       ELSE Panic("get_arg_u64", index)

GetArgF32(index) ==
    /\ pc = "idle"
    /\ IF f32_index_ok(index)
       THEN /\ ret' = Ret("get_arg_f32", "", index, <<>>, get_arg_f32(fpr))
            /\ UNCHANGED <<gpr, fpr, special, rdram, pc, str, nmut>>
       ELSE Panic("get_arg_f32", index)

\* get_arg_u64 (and its assert) runs before to_ptr
GetArgPtr(index) ==
    /\ pc = "idle"
    /\ IF arg_index_ok(index)
       THEN /\ ret' = Ret("get_arg_ptr", "", index, <<>>, get_arg_ptr(gpr, index))
            /\ UNCHANGED <<gpr, fpr, special, rdram, pc, str, nmut>>
       ELSE Panic("get_arg_ptr", index)

\* a direct call of mem_b; a read outside the region is undefined behaviour:
\* the process faults, or some byte is read
MemB(addr, offset) ==
    /\ pc = "idle"
    /\ LET off == mem_b_offset(addr, offset)
       IN  IF InRegion(off)
           THEN /\ ret' = Ret("mem_b", "in", 0, <<addr, offset>>, <<mem_b(rdram, addr, offset)>>)
                /\ pc' = pc
           ELSE \/ /\ ret' = Ret("mem_b", "out", 0, <<addr, offset>>, <<>>)
                   /\ pc' = "fault"
                \/ \E g \in GarbageVals :
                      /\ ret' = Ret("mem_b", "out", 0, <<addr, offset>>, <<as_i8(g)>>)
                      /\ pc' = pc
    /\ UNCHANGED <<gpr, fpr, special, rdram, str, nmut>>

\* get_arg_string, entry: the argument is fetched (get_arg_u64 asserts) and
\* the first pass starts with len = 0
StrCall(index) ==
    /\ pc = "idle"
    /\ IF arg_index_ok(index)
       THEN /\ str' = [NoStr EXCEPT !.addr = get_arg_u64(gpr, index)]
            /\ pc' = "scan"
            /\ ret' = Ret("get_arg_string", "running", index, <<>>, <<>>)
            /\ UNCHANGED <<gpr, fpr, special, rdram, nmut>>
       ELSE Panic("get_arg_string", index)

\* one iteration of the first loop, having read `byte` at offset len;
\* junk counts the reads that fell outside the region
ScanStep(byte, inside) ==
    /\ IF is_terminator(byte)
       THEN /\ pc' = "copy"
            /\ str' = [str EXCEPT !.reads1 = Append(@, str.len), !.last = byte,
                                  !.junk = IF inside THEN @ ELSE @ + 1]
       ELSE /\ pc' = "scan"
            /\ str' = [str EXCEPT !.reads1 = Append(@, str.len), !.last = byte,
                                  !.junk = IF inside THEN @ ELSE @ + 1,
                                  !.len = @ + 1]
    /\ UNCHANGED <<gpr, fpr, special, rdram, ret, nmut>>

Fault ==
    /\ pc' = "fault"
    /\ UNCHANGED <<gpr, fpr, special, rdram, str, ret, nmut>>

StrScan ==
    /\ pc = "scan"
    /\ IF InRegion(mem_b_offset(str.addr, FromNat(str.len)))
       THEN ScanStep(mem_b(rdram, str.addr, FromNat(str.len)), TRUE)
       ELSE \/ Fault
            \/ \E g \in GarbageVals :
                  /\ g # 0 => str.junk < MaxJunk
                  /\ ScanStep(as_i8(g), FALSE)

\* one iteration of the second loop, having read `byte` at offset i
CopyStep(byte) ==
    /\ pc' = "copy"
    /\ str' = [str EXCEPT !.reads2 = Append(@, str.i), !.last = byte,
                          !.i = @ + 1,
                          !.result = Append(@, byte_as_char(byte))]
    /\ UNCHANGED <<gpr, fpr, special, rdram, ret, nmut>>

StrCopy ==
    /\ pc = "copy"
    /\ str.i < str.len
    /\ IF InRegion(mem_b_offset(str.addr, FromNat(str.i)))
       THEN CopyStep(mem_b(rdram, str.addr, FromNat(str.i)))
       ELSE \/ Fault
            \/ \E g \in GarbageVals : CopyStep(as_i8(g))

\* the second loop is over: the string is returned and the locals are dropped
StrReturn ==
    /\ pc = "copy"
    /\ str.i >= str.len
    /\ pc' = "idle"
    /\ ret' = [ret EXCEPT !.name = IF str.junk = 0 THEN "returned" ELSE "returned_junk",
                          !.arg = <<str.addr, str.reads1, str.reads2>>,
                          !.val = str.result]
    /\ str' = NoStr
    /\ UNCHANGED <<gpr, fpr, special, rdram, nmut>>

\* set_return::<T>(val).  transmute_copy::<T, i32> reads four bytes of a value
\* of size_of::<T>() bytes: for a narrower T this is undefined behaviour, and
\* the build either panics on transmute_copy's size assertion or reads the
\* bytes that follow the value.
SetReturn(kind, val) ==
    /\ pc = "idle"
    /\ nmut < MaxWrites
    /\ IF is_float_kind(kind)
       THEN /\ fpr' = [fpr EXCEPT ![0] = set_fl(@, bytes_as_u32(val))]
            /\ nmut' = nmut + 1
            /\ ret' = Ret("set_return", kind, 0, val, <<>>)
            /\ UNCHANGED <<gpr, special, rdram, pc, str>>
       ELSE IF is_int_kind(kind)
       THEN IF size_of(kind) >= 4
            THEN /\ gpr' = [gpr EXCEPT ![2] = i32_as_u64(val)]
                 /\ nmut' = nmut + 1
                 /\ ret' = Ret("set_return", kind, 0, val, <<>>)
                 /\ UNCHANGED <<fpr, special, rdram, pc, str>>
            ELSE \/ /\ pc' = "panicked"
                    /\ ret' = Ret("set_return", kind, 0, val, <<>>)
                    /\ UNCHANGED <<gpr, fpr, special, rdram, str, nmut>>
                 \/ \E pad \in Padding(4 - size_of(kind)) :
                       /\ gpr' = [gpr EXCEPT ![2] = i32_as_u64(val \o pad)]
                       /\ nmut' = nmut + 1
                       /\ ret' = Ret("set_return", kind, 0, val, <<>>)
                       /\ UNCHANGED <<fpr, special, rdram, pc, str>>
       ELSE /\ pc' = "panicked"
            /\ ret' = Ret("set_return", kind, 0, val, <<>>)
            /\ UNCHANGED <<gpr, fpr, special, rdram, str, nmut>>

(***************************************************************************)
(* Specifications.                                                         *)
(***************************************************************************)
GprWritten == {2, 4, 5, 6, 7}

FprWritten == {0, 12, 13}

Next ==
    \/ \E k \in GprWritten, v \in GprVals : WriteGpr(k, v)
    \/ \E n \in FprWritten, view \in FprViews, v \in F32Vals \cup F64Vals : WriteFpr(n, view, v)
    \/ \E field \in {"hi", "lo", "status_reg", "mips3_float_mode"} : WriteSpecial(field)
    \/ \E index \in ArgIndices : GetArgU32(index)
    \/ \E index \in ArgIndices : GetArgU64(index)
    \/ \E index \in ArgIndices : GetArgF32(index)
    \/ \E index \in ArgIndices : GetArgPtr(index)
    \/ \E index \in ArgIndices : StrCall(index)
    \/ StrScan
    \/ StrCopy
    \/ StrReturn
    \/ \E kind \in Kinds : \E val \in ReturnVals(kind) : SetReturn(kind, val)

Spec == Init /\ [][Next]_vars

\* the register file alone: every slot is written, every accessor is called
RegNext ==
    \/ \E k \in 0 .. 31, v \in RegVals : WriteGpr(k, v)
    \/ \E name \in AliasNames : ReadAlias(name)

RegSpec == Init /\ [][RegNext]_vars

\* the regions used: each holds a null-terminated string of at most MaxLen
\* non-zero bytes, stored in guest order, every other byte being 17
StartOffsets == 0 .. (MemSize - MaxLen - 1)

InitRest ==
    /\ fpr = InitFpr
    /\ special = [hi |-> Zero64, lo |-> Zero64, f_odd |-> 0,
                  status_reg |-> <<0, 0>>, mips3_float_mode |-> 0]
    /\ pc = "idle"
    /\ str = NoStr
    /\ ret = NoRet
    /\ nmut = 0

\* the memory accessor alone, called at aligned and unaligned addresses, with
\* sums that wrap around 2^64 and with reads outside the region
MemBAddrs ==
    {GuestAddr(0), GuestAddr(1), GuestAddr(4), GuestAddr(6), AllOnes,
     wrapping_sub(RdramBase, FromNat(1))}

MemBOffsets ==
    {FromNat(0), FromNat(1), FromNat(2), FromNat(3), FromNat(5), AllOnes,
     <<\h0002, \h8000, \hFFFF, \hFFFF>>}

MemInit ==
    /\ \E S \in Strings, p \in StartOffsets : rdram = StoredString(S, p, 17)
    /\ gpr = InitGpr
    /\ InitRest

MemNext == \E addr \in MemBAddrs, offset \in MemBOffsets : MemB(addr, offset)

MemSpec == MemInit /\ [][MemNext]_vars

\* the string marshaller over every stored string: the four argument slots
\* hold, in some rotation, the addresses one byte before the string, at its
\* start, and one and two bytes into it.  The loops of get_arg_string are
\* synchronous code that runs on once started, hence the fairness of its steps.
StrInit ==
    /\ \E S \in Strings, p \in StartOffsets, r \in 0 .. 3 :
          /\ rdram = StoredString(S, p, 17)
          /\ gpr = [k \in 0 .. 31 |->
                       IF k \in 4 .. 7
                       THEN GuestAddr((p + ((k + r) % 4) + MemSize - 1) % MemSize)
                       ELSE InitGpr[k]]
    /\ InitRest

StrNext ==
    \/ \E index \in ArgIndices : StrCall(index)
    \/ StrScan
    \/ StrCopy
    \/ StrReturn

StrSpec ==
    /\ StrInit
    /\ [][StrNext]_vars
    /\ WF_vars(StrScan)
    /\ WF_vars(StrCopy)
    /\ WF_vars(StrReturn)

(***************************************************************************)
(* The statements checked.                                                 *)
(***************************************************************************)
\* the host offset as the specification words it: translate, then XOR the
\* low two bits of the offset with 3
SpecOffset(addr, offset) ==
    xor_3(wrapping_sub(wrapping_add(addr, offset), RdramBase))

Signed8(b) == IF b > 127 THEN b - 256 ELSE b

\* C1: mem_b(region, address, byte_offset) reads the region byte at host
\* offset ((address + byte_offset) - 0xFFFFFFFF80000000) with its low two bits
\* XORed with 3, as a signed 8-bit value; in a 4-byte-aligned group guest byte
\* k is read from host position 3 - k.
C1_ReadByte ==
    ret.op = "mem_b" =>
        LET off == SpecOffset(ret.arg[1], ret.arg[2])
        IN  /\ (ret.name = "in") <=> InRegion(off)
            /\ ret.name = "in" => ret.val = <<Signed8(rdram[off[1]])>>
            /\ \A w \in 0 .. MemWords - 1, k \in 0 .. 3 :
                  (ret.arg[1] = GuestAddr(4 * w) /\ ret.arg[2] = FromNat(k))
                      => ret.val = <<Signed8(rdram[4 * w + 3 - k])>>

C1_Witness ==
    /\ ret.op = "mem_b"
    /\ ret.arg = <<AllOnes, <<\h0002, \h8000, \hFFFF, \hFFFF>>>>
    /\ rdram[2] = 233
    /\ ret.val = <<-23>>

\* guest byte k of the string at address A, and "the first zero byte at or
\* after A lies at offset L"
GuestIn(A, k) == InRegion(SpecOffset(A, FromNat(k)))

GuestByte(A, k) == rdram[SpecOffset(A, FromNat(k))[1]]

TermAt(A, L) == \A k \in 0 .. L : GuestIn(A, k) /\ (GuestByte(A, k) = 0 <=> k = L)

UpTo(n) == [j \in 1 .. n |-> j - 1]

\* C2: a string of non-zero bytes stored null-terminated in guest order at the
\* address held in argument slot i is returned by arg_string(region, i): one
\* character per byte, its code point the byte taken as unsigned.
C2_RoundTrip ==
    (ret.op = "get_arg_string" /\ pc = "idle") =>
        \A n \in 0 .. MemSize - 1 :
            TermAt(gpr[4 + ret.idx], n) =>
                ret.val = [k \in 1 .. n |-> GuestByte(gpr[4 + ret.idx], k - 1)]

C2_Witness ==
    /\ ret.op = "get_arg_string"
    /\ pc = "idle"
    /\ ret.idx = 3
    /\ gpr[7] = GuestAddr(3)
    /\ TermAt(gpr[7], 2)
    /\ ret.val = <<75, 233>>

\* during a call the offsets read so far are 0, 1, ... in order, at most
\* 0..L in the first pass and 0..L-1 in the second
C10_DuringCall ==
    \A L \in 0 .. MemSize - 1 :
        (pc \in {"scan", "copy"} /\ TermAt(str.addr, L)) =>
            /\ Len(str.reads1) <= L + 1
            /\ str.reads1 = UpTo(Len(str.reads1))
            /\ Len(str.reads2) <= L
            /\ str.reads2 = UpTo(Len(str.reads2))
            /\ pc = "copy" => (str.len = L /\ Len(str.reads1) = L + 1)

\* at the return both passes are complete and L characters are returned
C10_AtReturn ==
    \A L \in 0 .. MemSize - 1 :
        (ret.op = "get_arg_string" /\ pc = "idle" /\ TermAt(ret.arg[1], L)) =>
            /\ ret.arg[2] = UpTo(L + 1)
            /\ ret.arg[3] = UpTo(L)
            /\ Len(ret.val) = L

\* no step of a call writes a register or a byte of the region
C10_Frame ==
    (pc \in {"scan", "copy"} \/ pc' \in {"scan", "copy"}) =>
        (gpr' = gpr /\ fpr' = fpr /\ special' = special /\ rdram' = rdram)

\* the first pass is left for the second only on a zero byte
C10_ScanEnds == (pc = "scan" /\ pc' = "copy") => str'.last = 0

\* a call whose string has its terminator in the region returns
C10_Terminates ==
    (pc = "scan" /\ \E L \in 0 .. MemSize - 1 : TermAt(str.addr, L))
        ~> (pc = "idle" /\ ret.op = "get_arg_string" /\ ret.name = "returned")

\* C10: with the first zero byte at offset L, arg_string reads offsets 0..L in
\* order in its first pass and 0..L-1 in its second, reads nothing beyond L,
\* writes neither the region nor a register, returns a string of length L and
\* terminates; the first pass ends only on reading a zero byte.
C10_TwoPasses ==
    /\ [](C10_DuringCall /\ C10_AtReturn)
    /\ [][C10_Frame /\ C10_ScanEnds]_vars
    /\ C10_Terminates

C10_Witness ==
    /\ ret.op = "get_arg_string"
    /\ pc = "idle"
    /\ TermAt(ret.arg[1], 2)
    /\ ret.arg[2] = <<0, 1, 2>>
    /\ ret.arg[3] = <<0, 1>>
    /\ GuestByte(ret.arg[1], 0) = 233

\* the value a kind's bytes denote, converted to a 32-bit signed integer and
\* sign-extended to 64 bits
IsSignedKind(kind) == kind \in {"i8", "i16", "i32"}

Widened(kind, val) ==
    LET top == val[Len(val)]
        fill == IF IsSignedKind(kind) /\ top >= 128 THEN 255 ELSE 0
        b == [j \in 1 .. 4 |-> IF j <= Len(val) THEN val[j] ELSE fill]
        ext == IF b[4] >= 128 THEN 65535 ELSE 0
    IN  <<b[1] + 256 * b[2], b[3] + 256 * b[4], ext, ext>>

\* C3: after set_return of an i8, u8, i16, u16, i32, u32 or bool, the integer
\* return slot v0 holds the value converted to a 32-bit signed integer and
\* sign-extended to 64 bits.
C3_IntReturn ==
    (ret.op = "set_return" /\ ret.name \in {"i8", "u8", "i16", "u16", "i32", "u32", "bool"}) =>
        (pc = "idle" /\ gpr[2] = Widened(ret.name, ret.arg))

\* after set_return of an f32 the low lane of f0 holds the value's 32 bits
C4_LowLane ==
    (ret.op = "set_return" /\ ret.name = "f32") =>
        /\ pc = "idle"
        /\ fpr[0][1] = ret.arg[1] + 256 * ret.arg[2]
        /\ fpr[0][2] = ret.arg[3] + 256 * ret.arg[4]

\* the step of set_return of an f32 changes nothing but the low lane of f0
C4_Frame ==
    (ret'.op = "set_return" /\ ret'.name = "f32") =>
        /\ fpr'[0][3] = fpr[0][3]
        /\ fpr'[0][4] = fpr[0][4]
        /\ \A n \in 1 .. 31 : fpr'[n] = fpr[n]
        /\ gpr' = gpr
        /\ special' = special
        /\ rdram' = rdram

\* C4: set_return of an f32 makes the low 32 bits of f0 the bit pattern of the
\* value and leaves the high 32 bits of f0, v0 and every other register
\* unchanged.
C4_FloatReturn == []C4_LowLane /\ [][C4_Frame]_vars

C4_Witness ==
    /\ ret.op = "set_return"
    /\ ret.name = "f32"
    /\ ret.arg = <<0, 0, 96, 64>>
    /\ fpr[0] = <<0, 16480, 32, 0>>

\* a call that violates its precondition has panicked and returned nothing
C5_Fatal ==
    /\ (ret.op \in {"get_arg_u32", "get_arg_u64", "get_arg_ptr", "get_arg_string"}
            /\ ret.idx \notin 0 .. 3)
        => (pc = "panicked" /\ ret.val = <<>>)
    /\ (ret.op = "get_arg_f32" /\ ret.idx # 0) => (pc = "panicked" /\ ret.val = <<>>)
    /\ (ret.op = "set_return"
            /\ ret.name \notin {"f32", "i8", "u8", "i16", "u16", "i32", "u32", "bool"})
        => pc = "panicked"

\* the panicking step writes nothing and reads nothing of the region
C5_NoEffect ==
    (pc # "panicked" /\ pc' = "panicked") =>
        /\ gpr' = gpr
        /\ fpr' = fpr
        /\ special' = special
        /\ rdram' = rdram
        /\ str' = NoStr

\* C5: arg_u32, arg_u64, arg_ptr and arg_string with an index outside 0..3,
\* arg_f32 with an index other than 0 and set_return with an unsupported kind
\* terminate abruptly: nothing is returned, no register is written and the
\* region is neither translated nor read.
C5_Preconditions == []C5_Fatal /\ [][C5_NoEffect]_vars

C5_Witness ==
    /\ pc = "panicked"
    /\ ret.op = "get_arg_f32"
    /\ ret.idx = 1
    /\ nmut = 1

\* C6: arg_u64(i) is the content of argument slot 4 + i and arg_u32(i) its low
\* 32 bits, whatever the other registers hold.
C6_IntArgs ==
    /\ (ret.op = "get_arg_u64" /\ pc = "idle") => ret.val = gpr[4 + ret.idx]
    /\ (ret.op = "get_arg_u32" /\ pc = "idle") =>
           ret.val = <<gpr[4 + ret.idx][1], gpr[4 + ret.idx][2]>>

C6_Witness ==
    /\ ret.op = "get_arg_u32"
    /\ ret.idx = 3
    /\ gpr[7] = LowAlias
    /\ ret.val = <<1, 32768>>

\* C7: arg_ptr(region, i) is the translation of the content of argument slot
\* 4 + i: the offset (address - 0xFFFFFFFF80000000) mod 2^64 from the region's
\* base, that is address + 0x80000000 mod 2^64; distinct addresses translate
\* to distinct offsets.
C7_Translate ==
    /\ (ret.op = "get_arg_ptr" /\ pc = "idle") =>
           ret.val = wrapping_add(gpr[4 + ret.idx], <<0, 32768, 0, 0>>)
    /\ \A i, j \in 4 .. 7 : gpr[i] # gpr[j] => to_ptr(gpr[i]) # to_ptr(gpr[j])

C7_Witness ==
    /\ ret.op = "get_arg_ptr"
    /\ ret.idx = 2
    /\ gpr[6] = LowAlias
    /\ ret.val = <<1, 0, 2, 0>>

\* C8: arg_f32(0) is the low 32 bits of floating cell f12, whichever view
\* wrote them, and depends on no other register.
C8_FloatArg ==
    (ret.op = "get_arg_f32" /\ pc = "idle") =>
        (ret.idx = 0 /\ ret.val = <<fpr[12][1], fpr[12][2]>>)

C8_Witness ==
    /\ ret.op = "get_arg_f32"
    /\ pc = "idle"
    /\ fpr[12] = <<4369, 8738, 13107, 17476>>
    /\ ret.val = <<4369, 8738>>

\* the architectural name of each slot, by position
SlotNames ==
    <<"zero", "at", "v0", "v1", "a0", "a1", "a2", "a3",
      "t0", "t1", "t2", "t3", "t4", "t5", "t6", "t7",
      "s0", "s1", "s2", "s3", "s4", "s5", "s6", "s7",
      "t8", "t9", "k0", "k1", "gp", "sp", "fp", "ra">>

\* every accessor reads the slot of its name
C9_Alias ==
    /\ \A k \in 0 .. 31 : Accessor(SlotNames[k + 1], gpr) = gpr[k]
    /\ ret.op = "alias" => \E k \in 0 .. 31 : SlotNames[k + 1] = ret.name /\ ret.val = gpr[k]

\* a write to slot k changes the reading of the accessor of slot k alone
C9_Write ==
    ret'.op = "write_gpr" =>
        \A k \in 0 .. 31 :
            Accessor(SlotNames[k + 1], gpr') =
                IF k = ret'.idx THEN ret'.val ELSE Accessor(SlotNames[k + 1], gpr)

\* C9: each named accessor returns the content of its one slot by position;
\* a write of v into slot k is read back as v by the accessor of slot k and
\* changes the reading of no other accessor.
C9_AliasIdentity == []C9_Alias /\ [][C9_Write]_vars

C9_Witness ==
    /\ ret.op = "alias"
    /\ ret.name = "ra"
    /\ gpr[31] = AllOnes
    /\ ret.val = AllOnes

====
